---- MODULE Spec2Model ----
(***************************************************************************)
(* Black '76 price engine of jaxfin: black_price, delta_black, gamma_black *)
(* (price_engine/black/black_model.py) and the batch vectorizer            *)
(* get_vfunction / _get_vmap_mask (price_engine/utils/vect.py).            *)
(*                                                                         *)
(* Numbers are binary floating-point values with MantBits significant bits *)
(* (round to nearest, ties to even), written as integers in units of       *)
(* 1/One.  An argument is a scalar, a one-dimensional array or None.       *)
(***************************************************************************)
EXTENDS Integers, Sequences, FiniteSets, TLC

\* Longest batch (array length) the caller supplies.
MaxLen == 2
\* Significant bits of the floating-point format the arrays are held in.
MantBits == 4
\* The integer that stands for 1.0.
One == 2^4
\* ExpTable holds exp() with this many extra units per unit of 1/One.
ExpScale == 2^8

VARIABLES
    inputs,   \* the caller's eight arguments (never written by the library)
    kernel,   \* which black-box undiscounted-call kernel is linked in
    vfun,     \* the in_axes captured by the function get_vfunction returned
    out       \* what the last call returned (with black_price's locals)

vars == <<inputs, kernel, vfun, out>>

(***************************************************************************)
(* Floating-point arithmetic of the array runtime.                         *)
(***************************************************************************)
Abs(x) == IF x < 0 THEN -x ELSE x
Sign(x) == IF x < 0 THEN -1 ELSE 1
Max(a, b) == IF a >= b THEN a ELSE b

\* The exponent e >= 0 of the binade of a/d: the least e with a/d < 2^(MantBits+e).
RECURSIVE Binade(_, _, _)
Binade(a, d, e) == IF a < d * 2^(MantBits + e) THEN e ELSE Binade(a, d, e + 1)

\* num/den rounded to the nearest representable value, ties to even.
RoundRat(num, den) ==
    LET a  == Abs(num)
        e  == Binade(a, den, 0)
        d2 == den * 2^e
        q  == a \div d2
        r  == a % d2
        m  == IF 2 * r < d2 THEN q
              ELSE IF 2 * r > d2 THEN q + 1
              ELSE IF q % 2 = 0 THEN q ELSE q + 1
    IN  Sign(num) * m * 2^e

Fl(x) == RoundRat(x, 1)
FAdd(a, b) == Fl(a + b)
FSub(a, b) == Fl(a - b)
FMul(a, b) == RoundRat(a * b, One)

\* round(One * ExpScale * e^(x/One)) for x = -2*One .. 2*One.
ExpTable == <<554, 590, 628, 669, 712, 758, 807, 859, 914, 973, 1036, 1102,
    1174, 1249, 1330, 1416, 1507, 1604, 1707, 1818, 1935, 2060, 2192, 2334,
    2484, 2645, 2815, 2997, 3190, 3396, 3615, 3848, 4096, 4360, 4641, 4941,
    5259, 5599, 5960, 6344, 6753, 7189, 7652, 8146, 8671, 9230, 9826, 10460,
    11134, 11852, 12617, 13430, 14296, 15218, 16200, 17245, 18357, 19541,
    20801, 22143, 23571, 25091, 26709, 28432, 30266>>
FExp(x) == RoundRat(ExpTable[x + 2 * One + 1], ExpScale)

(***************************************************************************)
(* Arguments: a scalar, an array or None.                                  *)
(***************************************************************************)
None == [kind |-> "none", v |-> <<>>]
Scalar(x) == [kind |-> "scalar", v |-> <<x>>]
Array(s) == [kind |-> "array", v |-> s]

\* jnp.isscalar
isscalar(x) == x.kind = "scalar"
\* x[i] under broadcasting: a scalar is shared by every element.
Elem(x, i) == IF x.kind = "array" THEN x.v[i] ELSE x.v[1]
\* The broadcast of the operands' shapes (arrays share one length).
Shape(xs) ==
    IF \E k \in 1..Len(xs) : xs[k].kind = "array"
    THEN [kind |-> "array",
          n |-> Len(xs[CHOOSE k \in 1..Len(xs) : xs[k].kind = "array"].v)]
    ELSE [kind |-> "scalar", n |-> 1]
\* An array or scalar of shape sh holding f[i].
Build(sh, f) == [kind |-> sh.kind, v |-> [i \in 1..sh.n |-> f[i]]]

Map1(Op(_), x) == Build(Shape(<<x>>), [i \in 1..Shape(<<x>>).n |-> Op(Elem(x, i))])
Map2(Op(_, _), x, y) ==
    LET sh == Shape(<<x, y>>)
    IN  Build(sh, [i \in 1..sh.n |-> Op(Elem(x, i), Elem(y, i))])
\* jnp.where
where(c, x, y) ==
    LET sh == Shape(<<c, x, y>>)
    IN  Build(sh, [i \in 1..sh.n |-> IF Elem(c, i) THEN Elem(x, i) ELSE Elem(y, i)])
\* jnp.zeros(shape)
zeros(sh) == Build(sh, [i \in 1..sh.n |-> 0])

\* cast_arrays: every element rounded to the target precision, shape kept.
cast_arrays(x, dtype) == Map1(Fl, x)

(***************************************************************************)
(* The undiscounted call kernel (a black box): intrinsic value plus a time *)
(* value, so that it is at least max(forward - strike, 0).                 *)
(***************************************************************************)
Kernels == 0..2
TimeValue(kid, expire, vol) == RoundRat(kid * vol * expire, One)

compute_undiscounted_call_prices(kid, forwards, strikes, expires, vols, discount_rates) ==
    LET sh == Shape(<<forwards, strikes, expires, vols, discount_rates>>)
    IN  Build(sh, [i \in 1..sh.n |->
            FAdd(Max(FSub(Elem(forwards, i), Elem(strikes, i)), 0),
                 TimeValue(kid, Elem(expires, i), Elem(vols, i)))])

(***************************************************************************)
(* black_price, with its locals kept beside the value it returns.          *)
(***************************************************************************)
\* discount_factors = jnp.exp((discount_rates - dividend_rates) * expires)
DiscountFactors(discount_rates, dividend_rates, expires) ==
    Map1(FExp, Map2(FMul, Map2(FSub, discount_rates, dividend_rates), expires))

\* forwards = discount_factors * spots
Forwards(discount_factors, spots) == Map2(FMul, discount_factors, spots)

\* return discount_factors * undiscounted_calls
PriceMutantDiscounted(discount_rates, expires, discount_factors, undiscounted_calls) ==
    Map2(FMul, Map1(FExp, Map2(FMul, Map2(FMul, Scalar(-One), discount_rates), expires)), undiscounted_calls)

PriceNoMask(discount_rates, expires, discount_factors, undiscounted_calls) ==
    Map2(FMul, discount_factors, undiscounted_calls)

\* undiscouted_puts = undiscounted_calls - undiscounted_forwards
PutsMutantAdded(undiscounted_calls, undiscounted_forwards) ==
    Map2(FAdd, undiscounted_calls, undiscounted_forwards)

PutsMutantSwapped(undiscounted_calls, undiscounted_forwards) ==
    Map2(FSub, undiscounted_forwards, undiscounted_calls)

UndiscoutedPuts(undiscounted_calls, undiscounted_forwards) ==
    Map2(FSub, undiscounted_calls, undiscounted_forwards)

\* return jnp.exp((-1 * discount_rates) * expires) * jnp.where(are_calls, calls, puts)
PriceMutantDividend(discount_rates, expires, discount_factors, are_calls, undiscounted_calls, undiscouted_puts) ==
    Map2(FMul, discount_factors, where(are_calls, undiscounted_calls, undiscouted_puts))

PriceMasked(discount_rates, expires, discount_factors, are_calls, undiscounted_calls, undiscouted_puts) ==
    Map2(FMul, Map1(FExp, Map2(FMul, Map2(FMul, Scalar(-One), discount_rates), expires)),
         where(are_calls, undiscounted_calls, undiscouted_puts))

black_price(kid, spots0, strikes0, expires0, vols0, discount_rates, dividend_rates0, are_calls, dtype) ==
    LET shape == Shape(<<spots0>>)
        spots == cast_arrays(spots0, dtype)
        strikes == cast_arrays(strikes0, dtype)
        expires == cast_arrays(expires0, dtype)
        vols == cast_arrays(vols0, dtype)
        dividend_rates == IF dividend_rates0.kind = "none" THEN zeros(shape)
                          ELSE dividend_rates0
        discount_factors == DiscountFactors(discount_rates, dividend_rates, expires)
        forwards == Forwards(discount_factors, spots)
        undiscounted_calls == compute_undiscounted_call_prices(
            kid, forwards, strikes, expires, vols, discount_rates)
        undiscounted_forwards == Map2(FSub, forwards, strikes)
        undiscouted_puts == UndiscoutedPuts(undiscounted_calls, undiscounted_forwards)
    IN  IF are_calls.kind = "none"
        THEN [val |-> PriceNoMask(discount_rates, expires, discount_factors, undiscounted_calls),
              forwards |-> forwards, strikes |-> strikes, expires |-> expires,
              undiscounted_calls |-> undiscounted_calls,
              undiscouted_puts |-> None]
        ELSE [val |-> PriceMasked(discount_rates, expires, discount_factors, are_calls,
                                  undiscounted_calls, undiscouted_puts),
              forwards |-> forwards, strikes |-> strikes, expires |-> expires,
              undiscounted_calls |-> undiscounted_calls,
              undiscouted_puts |-> undiscouted_puts]

(***************************************************************************)
(* delta_black and gamma_black: jax.grad of black_price with respect to    *)
(* argument 0.  The derivative is the autodiff engine's; what is kept is   *)
(* the function differentiated, the chain of argnums and the arguments it  *)
(* is evaluated at.  grad is defined for scalar-output functions only.     *)
(***************************************************************************)
Args(a) == <<a.spots, a.strikes, a.expires, a.vols, a.discount_rates, a.dividend_rates, a.are_calls, a.dtype>>

NoLocals == [forwards |-> None, strikes |-> None, expires |-> None, undiscounted_calls |-> None, undiscouted_puts |-> None]

\* What a call hands back: how it ended, the function and the argnums it was
\* differentiated by, the arguments it was evaluated at, and the value.
Result(status, argnums, args, val, locals) ==
    [status |-> status, fn |-> "black_price", argnums |-> argnums, at |-> args, val |-> val, locals |-> locals]

PriceResult(p, args) ==
    Result("ok", <<>>, args, p.val,
           [forwards |-> p.forwards, strikes |-> p.strikes, expires |-> p.expires,
            undiscounted_calls |-> p.undiscounted_calls, undiscouted_puts |-> p.undiscouted_puts])

price_call(kid, args) ==
    PriceResult(black_price(kid, args[1], args[2], args[3], args[4], args[5], args[6], args[7], args[8]), args)

GradResult(p, argnums, args) ==
    Result(IF p.val.kind = "scalar" THEN "ok" ELSE "TypeError", argnums, args, None, NoLocals)

\* grad(fn, argnums)(*args), fn being black_price differentiated by chain already.
grad(chain, argnums, kid, args) ==
    GradResult(black_price(kid, args[1], args[2], args[3], args[4], args[5], args[6], args[7], args[8]),
               Append(chain, argnums), args)

delta_black(kid, spots, strikes, expires, vols, discount_rates, dividend_rates, are_calls, dtype) ==
    grad(<<>>, 0, kid, <<spots, strikes, expires, vols, discount_rates, dividend_rates, are_calls, dtype>>)

gamma_black(kid, spots, strikes, expires, vols, discount_rates, dividend_rates, are_calls, dtype) ==
    grad(<<0>>, 0, kid, <<spots, strikes, expires, vols, discount_rates, dividend_rates, are_calls, dtype>>)

Funs == {"black_price", "delta_black", "gamma_black"}

\* fun(*args) for the three functions of the module.
Apply(fun, kid, a) ==
    CASE fun = "black_price" -> price_call(kid, a)
      [] fun = "delta_black" -> delta_black(kid, a[1], a[2], a[3], a[4], a[5], a[6], a[7], a[8])
      [] fun = "gamma_black" -> gamma_black(kid, a[1], a[2], a[3], a[4], a[5], a[6], a[7], a[8])

(***************************************************************************)
(* The batch vectorizer.                                                   *)
(***************************************************************************)
AxisNone == "None"
Axis0 == "0"

\* (0,) appended when the optional argument is supplied.
AddIf(mask, present, entry) == IF present THEN Append(mask, entry) ELSE mask

MaskMutantFlat(spots, strikes, expires, vols, discount_rates, dividend_rates, are_calls, dtype) ==
    AddIf(AddIf(AddIf([k \in 1..5 |-> IF isscalar(<<spots, strikes, expires, vols, discount_rates>>[k])
                                      THEN AxisNone ELSE Axis0],
                      dividend_rates.kind # "none", Axis0),
                are_calls.kind # "none", Axis0),
          dtype.kind # "none", AxisNone)

_get_vmap_mask(spots, strikes, expires, vols, discount_rates, dividend_rates, are_calls, dtype) ==
    AddIf(AddIf(AddIf([k \in 1..5 |-> IF isscalar(<<spots, strikes, expires, vols, discount_rates>>[k])
                                      THEN AxisNone ELSE Axis0],
                      dividend_rates.kind # "none", Axis0),
                are_calls.kind # "none", Axis0),
          are_calls.kind # "none" /\ dtype.kind # "none", AxisNone)

\* get_vfunction: jit(vmap(fun, in_axes = mask)); the mask is fixed when it is built.
get_vfunction(fun, spots, strikes, expires, vols, discount_rates, dividends_rates, are_calls, dtype) ==
    [fun |-> fun, in_axes |-> _get_vmap_mask(spots, strikes, expires, vols, discount_rates, dividends_rates, are_calls, dtype)]

\* The positional arguments of a call: everything up to the last one supplied.
RECURSIVE Supplied(_)
Supplied(args) ==
    IF Len(args) > 5 /\ args[Len(args)].kind = "none"
    THEN Supplied(SubSeq(args, 1, Len(args) - 1))
    ELSE args

\* The parameters a call leaves out take their default, None.
Pad(args) == args \o [k \in 1..(8 - Len(args)) |-> None]

\* The slice of one argument that element i of the batch sees.
Slice(axis, x, i) == IF axis = Axis0 /\ x.kind = "array" THEN Scalar(x.v[i]) ELSE x
ElemArgs(ax, args, i) == Pad([k \in 1..Len(args) |-> Slice(ax[k], args[k], i)])

\* The arguments mapped over axis 0, and the size of that axis.
Mapped(ax, args) == {k \in 1..Len(args) : k <= Len(ax) /\ ax[k] = Axis0 /\ args[k].kind = "array"}
BatchLen(ax, args) == Len(args[CHOOSE k \in Mapped(ax, args) : TRUE].v)

\* The per-element results stacked along axis 0 (the first failure, if any, is raised).
Gather(args, n, el) ==
    IF \E i \in 1..n : el[i].status # "ok"
    THEN Result(el[CHOOSE i \in 1..n : el[i].status # "ok"].status, el[1].argnums, Pad(args), None, NoLocals)
    ELSE Result("ok", el[1].argnums, Pad(args),
                IF el[1].val.kind = "none" THEN None ELSE Array([i \in 1..n |-> el[i].val.v[1]]),
                NoLocals)

\* vmap(fun, in_axes)(*args): in_axes has one entry per positional argument, an
\* argument mapped over axis 0 has rank >= 1, and at least one argument is mapped.
vmap(f, kid, args) ==
    IF \/ Len(f.in_axes) # Len(args)
       \/ \E k \in 1..Len(args) : f.in_axes[k] = Axis0 /\ args[k].kind = "scalar"
       \/ Mapped(f.in_axes, args) = {}
    THEN Result("ValueError", <<>>, Pad(args), None, NoLocals)
    ELSE Gather(args, BatchLen(f.in_axes, args),
                [i \in 1..BatchLen(f.in_axes, args) |-> Apply(f.fun, kid, ElemArgs(f.in_axes, args, i))])

(***************************************************************************)
(* The caller's arguments.                                                 *)
(***************************************************************************)
Scenarios == <<
    [spot |-> 20, strike |-> 24, expire |-> 16, vol |-> 5, dr |-> 0, div |-> 0, call |-> TRUE],
    [spot |-> 10, strike |-> 24, expire |-> 16, vol |-> 5, dr |-> 0, div |-> 0, call |-> FALSE],
    [spot |-> 27, strike |-> 13, expire |-> 32, vol |-> 5, dr |-> 4, div |-> 0, call |-> TRUE],
    [spot |-> 27, strike |-> 24, expire |-> 16, vol |-> 5, dr |-> -4, div |-> 8, call |-> FALSE],
    [spot |-> 20, strike |-> 13, expire |-> 32, vol |-> 5, dr |-> 0, div |-> 8, call |-> FALSE] >>

Fields == {"spots", "strikes", "expires", "vols", "discount_rates", "dividend_rates", "are_calls"}
Required == {"spots", "strikes", "expires", "vols", "discount_rates"}

Column(s, f) ==
    CASE f = "spots" -> s.spot [] f = "strikes" -> s.strike [] f = "expires" -> s.expire
      [] f = "vols" -> s.vol [] f = "discount_rates" -> s.dr [] f = "dividend_rates" -> s.div
      [] f = "are_calls" -> s.call

\* Argument f of batch b, supplied as kind.
Arg(b, f, kind) ==
    CASE kind = "none" -> None
      [] kind = "scalar" -> Scalar(Column(Scenarios[b[1]], f))
      [] kind = "array" -> Array([i \in 1..Len(b) |-> Column(Scenarios[b[i]], f)])

Float32 == [kind |-> "float32", v |-> <<>>]

MkInputs(b, k, dtype) ==
    [spots |-> Arg(b, "spots", k["spots"]), strikes |-> Arg(b, "strikes", k["strikes"]),
     expires |-> Arg(b, "expires", k["expires"]), vols |-> Arg(b, "vols", k["vols"]),
     discount_rates |-> Arg(b, "discount_rates", k["discount_rates"]),
     dividend_rates |-> Arg(b, "dividend_rates", k["dividend_rates"]),
     are_calls |-> Arg(b, "are_calls", k["are_calls"]), dtype |-> dtype]

Batches == UNION {[1..n -> 1..Len(Scenarios)] : n \in 1..MaxLen}

Kinds == {k \in [Fields -> {"none", "scalar", "array"}] : \A f \in Required : k[f] # "none"}
ArrayKinds == {k \in Kinds : \A f \in Fields : k[f] # "scalar"}

\* Batches of arrays over every scenario, and every scalar/array mix over one batch.
ArrayInputs == {MkInputs(b, k, None) : b \in Batches, k \in ArrayKinds}
MixedInputs == {MkInputs([i \in 1..MaxLen |-> i], k, d) : k \in Kinds, d \in {None, Float32}}

NoOut == [op |-> "none", status |-> "none", fn |-> "none", argnums |-> <<>>, at |-> <<>>, val |-> None, locals |-> NoLocals]
NoVfun == [fun |-> "none", in_axes |-> <<>>]

Init ==
    /\ \/ inputs \in ArrayInputs /\ kernel \in Kernels
       \/ inputs \in MixedInputs /\ kernel = 1
    /\ vfun = NoVfun
    /\ out = NoOut

Returned(op, r) == [op |-> op, status |-> r.status, fn |-> r.fn, argnums |-> r.argnums, at |-> r.at, val |-> r.val, locals |-> r.locals]

BlackPriceMutantInPlace ==
    /\ out' = Returned("black_price", price_call(kernel, Args(inputs)))
    /\ inputs' = [inputs EXCEPT !.spots = cast_arrays(inputs.spots, inputs.dtype)]
    /\ UNCHANGED <<kernel, vfun>>

BlackPrice ==
    /\ out' = Returned("black_price", price_call(kernel, Args(inputs)))
    /\ UNCHANGED <<inputs, kernel, vfun>>

DeltaBlack ==
    /\ out' = Returned("delta_black", delta_black(kernel, inputs.spots, inputs.strikes, inputs.expires, inputs.vols, inputs.discount_rates, inputs.dividend_rates, inputs.are_calls, inputs.dtype))
    /\ UNCHANGED <<inputs, kernel, vfun>>

GammaBlack ==
    /\ out' = Returned("gamma_black", gamma_black(kernel, inputs.spots, inputs.strikes, inputs.expires, inputs.vols, inputs.discount_rates, inputs.dividend_rates, inputs.are_calls, inputs.dtype))
    /\ UNCHANGED <<inputs, kernel, vfun>>

GetVFunction ==
    /\ \E fun \in Funs :
          vfun' = get_vfunction(fun, inputs.spots, inputs.strikes, inputs.expires, inputs.vols, inputs.discount_rates, inputs.dividend_rates, inputs.are_calls, inputs.dtype)
    /\ UNCHANGED <<inputs, kernel, out>>

CallVFunction ==
    /\ vfun # NoVfun
    /\ out' = Returned("vfunction", vmap(vfun, kernel, Supplied(Args(inputs))))
    /\ UNCHANGED <<inputs, kernel, vfun>>

Next == BlackPrice \/ DeltaBlack \/ GammaBlack \/ GetVFunction \/ CallVFunction

Spec == Init /\ [][Next]_vars

(***************************************************************************)
(* Properties.                                                             *)
(***************************************************************************)
Present(x) == x.kind # "none"
Count(b) == IF b THEN 1 ELSE 0
RequiredArgs == <<inputs.spots, inputs.strikes, inputs.expires, inputs.vols, inputs.discount_rates>>
\* Number of scenarios of the batch the caller holds.
BatchSize == Shape(<<inputs.spots, inputs.strikes, inputs.expires, inputs.vols, inputs.discount_rates, inputs.dividend_rates, inputs.are_calls>>).n
Priced == out.op = "black_price" /\ out.status = "ok"
Masked == Priced /\ Present(inputs.are_calls)
Rate(i) == Elem(inputs.discount_rates, i)
Dividend(i) == IF Present(inputs.dividend_rates) THEN Elem(inputs.dividend_rates, i) ELSE 0
Expiry(i) == Fl(Elem(inputs.expires, i))
Call(i) == Elem(out.locals.undiscounted_calls, i)
Put(i) == Elem(out.locals.undiscouted_puts, i)
Forward(i) == Elem(out.locals.forwards, i)
Strike(i) == Elem(out.locals.strikes, i)
\* The spacing of the floating-point values around x.
Ulp(x) == 2^Binade(Abs(x), 1, 0)

\* C1: the mask get_vfunction captured is: one entry per required argument in
\* order, None for a scalar and axis 0 for an array; then axis 0 if
\* dividend_rate is supplied; then axis 0 if is_call is supplied, followed by
\* None if precision is supplied too; nothing for precision without is_call.
C1_MaskLayout ==
    vfun # NoVfun =>
        LET m == vfun.in_axes
            d == Count(Present(inputs.dividend_rates))
            c == Count(Present(inputs.are_calls))
            t == Count(Present(inputs.are_calls) /\ Present(inputs.dtype))
        IN  /\ Len(m) = 5 + d + c + t
            /\ \A k \in 1..5 : m[k] = IF RequiredArgs[k].kind = "scalar" THEN AxisNone ELSE Axis0
            /\ d = 1 => m[6] = Axis0
            /\ c = 1 => m[6 + d] = Axis0
            /\ t = 1 => m[7 + d] = AxisNone

C1_Witness ==
    /\ vfun # NoVfun
    /\ inputs.spots.kind = "scalar" /\ inputs.strikes.kind = "array"
    /\ Present(inputs.dividend_rates) /\ Present(inputs.are_calls) /\ Present(inputs.dtype)
    /\ vfun.in_axes = <<AxisNone, Axis0, Axis0, AxisNone, AxisNone, Axis0, Axis0, AxisNone>>

\* C2: the vectorized function, called on a batch of n scenarios whose arguments
\* are shared scalars or length-n arrays, returns n results, the i-th being fn
\* on scenario i alone.
C2_BatchingConsistency ==
    (out.op = "vfunction" /\ \E k \in 1..7 : Args(inputs)[k].kind = "array") =>
        /\ out.status = "ok"
        /\ out.argnums = <<>> =>
              /\ out.val.kind = "array" /\ Len(out.val.v) = BatchSize
              /\ \A i \in 1..BatchSize :
                    out.val.v[i] = price_call(kernel, ElemArgs([k \in 1..8 |-> Axis0], Args(inputs), i)).val.v[1]

\* C3: when every supplied input is a scalar, no entry of the mask is axis 0.
C3_AllScalarsUnbatched ==
    (vfun # NoVfun /\ \A k \in 1..7 : Args(inputs)[k].kind # "array") =>
        \A k \in 1..Len(vfun.in_axes) : vfun.in_axes[k] = AxisNone

\* C4: with is_call supplied, element i of the price is exp(-discount_rate[i] *
\* expiry[i]) times the undiscounted call if is_call[i] and the undiscounted put
\* otherwise.
C4_MaskedPrice ==
    Masked =>
        \A i \in 1..BatchSize :
            Elem(out.val, i) = FMul(FExp(0 - FMul(Rate(i), Expiry(i))),
                                    IF Elem(inputs.are_calls, i) THEN Call(i) ELSE Put(i))

C4_Witness ==
    /\ Masked /\ BatchSize = 2
    /\ Elem(inputs.are_calls, 1) /\ ~Elem(inputs.are_calls, 2)
    /\ Rate(2) # 0 /\ Dividend(2) # 0 /\ Put(2) # Call(2) /\ Elem(out.val, 2) > 0

\* C5 as stated: undiscounted_call - undiscounted_put = forward - strike exactly.
C5_ParityExact ==
    Masked => \A i \in 1..BatchSize : FSub(Call(i), Put(i)) = FSub(Forward(i), Strike(i))

\* C5 amended: the undiscounted put is undiscounted_call - (forward - strike)
\* rounded once: it is within half a unit in the last place of that difference,
\* and the parity is exact whenever the difference is representable.
C5_ParityRounded ==
    Masked =>
        \A i \in 1..BatchSize :
            LET d == Call(i) - FSub(Forward(i), Strike(i))
            IN  /\ 2 * Abs(Put(i) - d) <= Ulp(d)
                /\ Fl(Put(i)) = Put(i)
                /\ Fl(d) = d => Call(i) - Put(i) = FSub(Forward(i), Strike(i))

C5_Witness ==
    /\ Masked
    /\ \E i \in 1..BatchSize : FSub(Call(i), Put(i)) # FSub(Forward(i), Strike(i))
    /\ \E i \in 1..BatchSize : Put(i) > 0 /\ Call(i) - Put(i) = Forward(i) - Strike(i)

\* C6: black_price with is_call all true and black_price without is_call price the
\* same undiscounted call, the first times exp(-discount_rate * expiry), the
\* second times exp((discount_rate - dividend_rate) * expiry); they are equal
\* wherever discount_rate = 0 and dividend_rate = 0.
Unmasked == black_price(kernel, inputs.spots, inputs.strikes, inputs.expires, inputs.vols, inputs.discount_rates, inputs.dividend_rates, None, inputs.dtype)

C6_AllCallsVsNoMask ==
    (Masked /\ \A i \in 1..BatchSize : Elem(inputs.are_calls, i)) =>
        \A i \in 1..BatchSize :
            /\ Elem(Unmasked.undiscounted_calls, i) = Call(i)
            /\ Elem(out.val, i) = FMul(FExp(0 - FMul(Rate(i), Expiry(i))), Call(i))
            /\ Elem(Unmasked.val, i) = FMul(FExp(FMul(FSub(Rate(i), Dividend(i)), Expiry(i))), Call(i))
            /\ (Rate(i) = 0 /\ Dividend(i) = 0) => Elem(Unmasked.val, i) = Elem(out.val, i)

C6_Witness ==
    /\ Masked /\ BatchSize = 2
    /\ \A i \in 1..BatchSize : Elem(inputs.are_calls, i)
    /\ Rate(1) = 0 /\ Dividend(1) = 0 /\ Elem(out.val, 1) > 0
    /\ Rate(2) # 0 /\ Elem(Unmasked.val, 2) # Elem(out.val, 2)

\* C8: no call writes the caller's arguments or the kernel, and what a call
\* returns is determined by the function called and the arguments alone,
\* whatever was called before it.
Recomputed(op, f, a, kid) ==
    CASE op = "black_price" -> Returned(op, price_call(kid, Args(a)))
      [] op = "delta_black" -> Returned(op, delta_black(kid, a.spots, a.strikes, a.expires, a.vols, a.discount_rates, a.dividend_rates, a.are_calls, a.dtype))
      [] op = "gamma_black" -> Returned(op, gamma_black(kid, a.spots, a.strikes, a.expires, a.vols, a.discount_rates, a.dividend_rates, a.are_calls, a.dtype))
      [] op = "vfunction" -> Returned(op, vmap(get_vfunction(f, a.spots, a.strikes, a.expires, a.vols, a.discount_rates, a.dividend_rates, a.are_calls, a.dtype), kid, Supplied(Args(a))))

C8_Pure ==
    [][/\ inputs' = inputs
       /\ kernel' = kernel
       /\ out' # out => out' = Recomputed(out'.op, vfun.fun, inputs, kernel)]_vars

C8_Witness ==
    /\ Priced /\ vfun # NoVfun
    /\ ~Present(inputs.dividend_rates) /\ Present(inputs.are_calls)
    /\ inputs.spots.kind = "array" /\ Fl(Elem(inputs.spots, 1)) # Elem(inputs.spots, 1)

\* C9: every element of the price is non-negative, with and without is_call, and
\* there is one element per scenario.
C9_NonNegative ==
    Priced =>
        /\ Len(out.val.v) = BatchSize
        /\ \A i \in 1..BatchSize : Elem(out.val, i) >= 0

C9_Witness ==
    /\ Masked /\ BatchSize = 2
    /\ \E i \in 1..BatchSize : ~Elem(inputs.are_calls, i) /\ Forward(i) > Strike(i) /\ Put(i) >= 0 /\ Put(i) < Call(i)
    /\ \E i \in 1..BatchSize : ~Elem(inputs.are_calls, i) /\ Forward(i) < Strike(i) /\ Elem(out.val, i) > 0

\* C10: the mask has one entry per positional argument of the call (up to the
\* last one supplied), the entry for is_call at position 6 and the entry for
\* precision at position 7 (0-based), and a supplied precision has an entry.
C10_MaskAligned ==
    vfun # NoVfun =>
        /\ Len(vfun.in_axes) = Len(Supplied(Args(inputs)))
        /\ Present(inputs.are_calls) => (Len(vfun.in_axes) >= 7 /\ vfun.in_axes[7] = Axis0)
        /\ Present(inputs.dtype) => (Len(vfun.in_axes) = 8 /\ vfun.in_axes[8] = AxisNone)

====
